---- MODULE Spec2Model ----
(***************************************************************************)
(* Lando API: the try submission endpoint (landoapi/api/try.py), the       *)
(* uplift endpoint (landoapi/api/uplift.py, landoapi/uplift.py), the       *)
(* deploy sequences that toggle the operational flags (landoapi/cli.py),   *)
(* and the landing job queue and landing worker that consume the jobs.     *)
(*                                                                         *)
(* The endpoint and the deploy sequences are translated from the source.   *)
(* The job store, the queue query, the configuration store, the request    *)
(* hooks and the landing worker are imported by the source from modules    *)
(* that are not at hand; they follow the design document, sections 3 to 7. *)
(***************************************************************************)
EXTENDS Integers, Sequences, FiniteSets, TLC

VARIABLES
    jobs,         \* landing job table: sequence of rows, row i has id i
    revisions,    \* revision table: sequence of rows, row i has id i
    config,       \* configuration variables: key -> raw string value
    environment,  \* current_app.config["ENVIRONMENT"]
    now,          \* wall clock, in seconds
    response,     \* the last HTTP exchange on /try: the request, the result
                  \* and the id of the job it added (0 if none)
    worker,       \* per landing worker process: its position in the loop
    cli,          \* per deploy command: its position in the sequence
    phabricator,  \* the Phabricator instance: its revisions and diffs
    uplift,       \* the last HTTP exchange on /uplift
    message,      \* a commit message and what move_drev_to_original made of it
    deploys       \* history: the deploy command that started last, the one
                  \* that finished last, and whether the one that started
                  \* last found another one running

vars ==
    <<jobs, revisions, config, environment, now, response, worker, cli,
      phabricator, uplift, message, deploys>>

----------------------------------------------------------------------------
(* Bounds of the model.                                                    *)

MaxJobs == 2

MaxTime == 2

----------------------------------------------------------------------------
(* Values.                                                                 *)

\* Python's None for an optional string is the empty tuple, a string s is <<s>>.
None == <<>>

Some(s) == <<s>>

\* len(base_commit) == 40 in post.
HashLen == 40

Hash40 == "abcabcabcaabcabcabcaabcabcabcaabcabcabca"

Hash41 == "abcabcabcaabcabcabcaabcabcabcaabcabcabcab"

\* LandingJobStatus
SUBMITTED == "SUBMITTED"

IN_PROGRESS == "IN_PROGRESS"

DEFERRED == "DEFERRED"

LANDED == "LANDED"

FAILED == "FAILED"

CANCELLED == "CANCELLED"

LandingJobStatus == {SUBMITTED, IN_PROGRESS, DEFERRED, LANDED, FAILED, CANCELLED}

\* ConfigurationKey
API_IN_MAINTENANCE == "API_IN_MAINTENANCE"

LANDING_WORKER_PAUSED == "LANDING_WORKER_PAUSED"

ConfigurationKey == {API_IN_MAINTENANCE, LANDING_WORKER_PAUSED}

\* The repositories each environment configures; "try" is missing from one.
TryRepo == [short_name |-> "try", url |-> "https://hg.test/try",
            approval_required |-> FALSE]

AutolandRepo == [short_name |-> "autoland", url |-> "https://hg.test/autoland",
                 approval_required |-> FALSE]

\* mozilla-central takes landings without approval, mozilla-uplift is an
\* uplift repository.
CentralRepo == [short_name |-> "mozilla-central", url |-> "https://hg.test/central",
                approval_required |-> FALSE]

UpliftRepo == [short_name |-> "mozilla-uplift", url |-> "https://hg.test/uplift",
               approval_required |-> TRUE]

Environments == {"devel", "bare"}

get_repos_for_env(env) ==
    IF env = "devel"
    THEN {TryRepo, AutolandRepo, CentralRepo, UpliftRepo}
    ELSE {AutolandRepo}

\* dict.get(name): the configured repository of that name, or None.
RepoGet(repos, name) ==
    IF \E r \in repos : r.short_name = name
    THEN Some(CHOOSE r \in repos : r.short_name = name)
    ELSE None

----------------------------------------------------------------------------
(* Callers and request bodies.                                             *)

Groups == {"all_scm_level_1", "active_scm_level_1", "expired_scm_level_1"}

Authorised == {"all_scm_level_1", "active_scm_level_1"}

User(email, groups, token) == [email |-> email, groups |-> groups, token |-> token]

\* Every group membership with one email, the authorised membership with a
\* second email, and a caller that presents no Auth0 token.
Callers ==
    {User("alice@example.com", g, TRUE) : g \in SUBSET Groups}
        \cup {User("bob@example.com", Authorised, TRUE),
              User("", {}, FALSE)}

GoodCallers ==
    {User("alice@example.com", Authorised, TRUE),
     User("bob@example.com", Authorised, TRUE)}

Bases == {None, Some(""), Some("abc"), Some(Hash40), Some(Hash41)}

PatchLists == {<<>>, <<"p1">>, <<"p2", "p1">>}

Data(base, patches) == [base_commit |-> base, patches |-> patches]

Datas == {Data(b, p) : b \in Bases, p \in PatchLists}

GoodDatas == {Data(Some(Hash40), p) : p \in PatchLists \ {<<>>}}

NoResponse ==
    [status |-> 0, title |-> "", job |-> 0, caller |-> User("", {}, FALSE),
     data |-> Data(None, <<>>)]

----------------------------------------------------------------------------
(* Configuration store (landoapi.models.configuration).                    *)

\* ConfigurationVariable.set(key, VariableType.BOOL, raw): store the raw value.
ConfigurationVariable_set(cfg, key, raw) == [cfg EXCEPT ![key] = raw]

\* ConfigurationVariable.get(key, False): parse the raw value of a BOOL.
ConfigurationVariable_get(cfg, key) == cfg[key] \in {"1", "true"}

----------------------------------------------------------------------------
(* Job store (landoapi.models.landing_job, landoapi.models.revisions).     *)

\* Revision(patch_bytes=patch, patch_data={}) before it is attached to a job.
Revision(patch) == [patch_bytes |-> patch, patch_data |-> <<>>]

\* add_job_with_revisions: one job row and its revision rows, in one commit.
add_job_with_revisions(js, rs, revs, repository_name, repository_url, requester_email, status, target_cset, t) ==
    LET id == Len(js) + 1
        job == [id |-> id,
                status |-> status,
                repository_name |-> repository_name,
                repository_url |-> repository_url,
                requester_email |-> requester_email,
                target_cset |-> target_cset,
                created_at |-> t,
                updated_at |-> t,
                error_message |-> "",
                attempts |-> 0]
        rows == [i \in 1..Len(revs) |->
                    [id |-> Len(rs) + i,
                     patch_bytes |-> revs[i].patch_bytes,
                     patch_data |-> revs[i].patch_data,
                     landing_job_id |-> id,
                     sequence_index |-> i - 1]]
    IN  [jobs |-> Append(js, job), revisions |-> rs \o rows]

\* The revisions of a job, by ascending sequence_index.
RevisionsOf(rs, id) == SelectSeq(rs, LAMBDA r : r.landing_job_id = id)

\* Whether a job row is outside the grace window at time t.
PastGrace(job, grace_seconds, t) == job.updated_at + grace_seconds <= t

\* Whether the queue may hand out the job at time t.
Eligible(job, repositories, grace_seconds, t) ==
    /\ job.status \in {SUBMITTED, DEFERRED}
    /\ job.repository_name \in repositories
    /\ PastGrace(job, grace_seconds, t)

\* A queue order that puts the latest job first.
Before_latest(js, i, k) ==
    \/ js[i].created_at > js[k].created_at
    \/ js[i].created_at = js[k].created_at /\ i > k

\* Whether row i is queued before row k: earlier created_at, then lower id.
Before(js, i, k) ==
    \/ js[i].created_at < js[k].created_at
    \/ js[i].created_at = js[k].created_at /\ i < k

\* The ids in S as a sequence, in queue order.
RECURSIVE InQueueOrder(_, _)
InQueueOrder(js, S) ==
    IF S = {} THEN <<>>
    ELSE LET i == CHOOSE x \in S : \A y \in S \ {x} : Before(js, x, y)
         IN  <<i>> \o InQueueOrder(js, S \ {i})

\* LandingJob.job_queue_query(repositories, grace_seconds).all(): the ids of
\* the eligible jobs, by ascending created_at.
job_queue_query(js, repositories, grace_seconds, t) ==
    InQueueOrder(js, {i \in 1..Len(js) :
                         Eligible(js[i], repositories, grace_seconds, t)})

\* The queue selector: of that sequence, the first job of each repository.
next_eligible(js, repositories, grace_seconds, t) ==
    LET q == job_queue_query(js, repositories, grace_seconds, t)
    IN  SelectSeq(q, LAMBDA i :
            \A k \in 1..Len(js) :
                (/\ k # i
                 /\ Eligible(js[k], repositories, grace_seconds, t)
                 /\ js[k].repository_name = js[i].repository_name)
                => Before(js, i, k))

----------------------------------------------------------------------------
(* POST /try (landoapi/api/try.py).                                        *)

\* raise ProblemException(status, title, ...): nothing was written. Titles
\* are the source's, without the backquotes around identifiers.
Problem(status, title, js, rs) ==
    [status |-> status, title |-> title, jobs |-> js, revisions |-> rs]

\* not x, for an optional string.
Falsy(x) == x = None \/ x[1] = ""

\* A length check that only rejects hashes that are too short.
base_commit_shorter(base_commit) ==
    Falsy(base_commit) \/ Len(base_commit[1]) < HashLen

\* A check that lets a missing base commit through.
base_commit_optional(base_commit) ==
    ~Falsy(base_commit) /\ Len(base_commit[1]) # HashLen

\* post, line 63: the base commit is missing or not 40 characters long.
base_commit_invalid(base_commit) ==
    Falsy(base_commit) \/ Len(base_commit[1]) # HashLen

\* A check that lets an empty patch list through.
patches_unchecked(patches) == FALSE

\* post, line 71: not patches.
patches_invalid(patches) == patches = <<>>

\* The revisions in the reverse of the request's order.
try_revisions_reversed(patches) ==
    [i \in 1..Len(patches) |-> Revision(patches[Len(patches) + 1 - i])]

\* post, line 92: one Revision per patch, in the order of the request.
try_revisions(patches) == [i \in 1..Len(patches) |-> Revision(patches[i])]

\* A post that writes the job before it looks the repository up.
post_lookup_late(data, user, env, js, rs, t) ==
    LET base_commit == data.base_commit
        patches == data.patches
        try_repo == RepoGet(get_repos_for_env(env), "try")
        added == add_job_with_revisions(
                     js, rs, try_revisions(patches), "try", "", user.email,
                     SUBMITTED, base_commit, t)
    IN  IF base_commit_invalid(base_commit)
        THEN Problem(400, "Base commit must be a 40-character commit hash.", js, rs)
        ELSE IF patches_invalid(patches)
        THEN Problem(400, "Patches must contain at least 1 patch.", js, rs)
        ELSE IF try_repo = None
        THEN Problem(500, "Could not find a try repo to submit to.",
                     added.jobs, added.revisions)
        ELSE [status |-> 201, title |-> "",
              jobs |-> added.jobs, revisions |-> added.revisions]

\* The body of post.
post(data, user, env, js, rs, t) ==
    LET base_commit == data.base_commit
        patches == data.patches
        try_repo == RepoGet(get_repos_for_env(env), "try")
    IN  IF base_commit_invalid(base_commit)
        THEN Problem(400, "Base commit must be a 40-character commit hash.", js, rs)
        ELSE IF patches_invalid(patches)
        THEN Problem(400, "Patches must contain at least 1 patch.", js, rs)
        ELSE IF try_repo = None
        THEN Problem(500, "Could not find a try repo to submit to.", js, rs)
        ELSE LET ldap_username == user.email
                 revs == try_revisions(patches)
                 added == add_job_with_revisions(
                              js, rs, revs, try_repo[1].short_name,
                              try_repo[1].url, ldap_username, SUBMITTED,
                              base_commit, t)
             IN  [status |-> 201, title |-> "",
                  jobs |-> added.jobs, revisions |-> added.revisions]

\* g.auth0_user.is_in_groups(group)
is_in_groups(user, group) == group \in user.groups

\* A guard that asks for active membership and forgets the expired group.
enforce_scm_level_1_unexpiring(data, user, env, js, rs, t) ==
    IF ~is_in_groups(user, "all_scm_level_1")
    THEN Problem(401, "scm_level_1 access is required.", js, rs)
    ELSE IF ~is_in_groups(user, "active_scm_level_1")
    THEN Problem(401, "Your scm_level_1 commit access has expired.", js, rs)
    ELSE post(data, user, env, js, rs, t)

\* @enforce_scm_level_1 around post.
enforce_scm_level_1(data, user, env, js, rs, t) ==
    IF ~is_in_groups(user, "all_scm_level_1")
    THEN Problem(401, "scm_level_1 access is required.", js, rs)
    ELSE IF \/ is_in_groups(user, "expired_scm_level_1")
            \/ ~is_in_groups(user, "active_scm_level_1")
    THEN Problem(401, "Your scm_level_1 commit access has expired.", js, rs)
    ELSE post(data, user, env, js, rs, t)

\* @auth.require_auth0 around that: a request without a token stops here.
require_auth0(data, user, env, js, rs, t) ==
    IF ~user.token
    THEN Problem(401, "Authorization Header Required", js, rs)
    ELSE enforce_scm_level_1(data, user, env, js, rs, t)

\* A hook that lets requests through during maintenance.
check_maintenance_off(cfg, data, user, env, js, rs, t) ==
    require_auth0(data, user, env, js, rs, t)

\* The request hook of the API layer: no endpoint runs during maintenance.
check_maintenance(cfg, data, user, env, js, rs, t) ==
    IF ConfigurationVariable_get(cfg, API_IN_MAINTENANCE)
    THEN Problem(503, "Lando is in maintenance.", js, rs)
    ELSE require_auth0(data, user, env, js, rs, t)

\* One POST /try exchange, from the hook to the commit.
TryRequest(user, data) ==
    /\ Len(jobs) < MaxJobs
    /\ LET r == check_maintenance(config, data, user, environment,
                                  jobs, revisions, now)
       IN  /\ jobs' = r.jobs
           /\ revisions' = r.revisions
           /\ response' = [status |-> r.status, title |-> r.title,
                           job |-> IF Len(r.jobs) > Len(jobs) THEN Len(r.jobs) ELSE 0,
                           caller |-> user, data |-> data]
    /\ UNCHANGED <<deploys, phabricator, uplift, message, config, environment, now, worker, cli>>

\* Time passes.
Tick ==
    /\ now < MaxTime
    /\ now' = now + 1
    /\ UNCHANGED <<deploys, phabricator, uplift, message, jobs, revisions, config, environment, response, worker, cli>>

----------------------------------------------------------------------------
(* Commit messages (landoapi/uplift.py). A message is a sequence of        *)
(* tokens: "nl" is a line break, "sp" a blank, "txt" a word, "Dr" the      *)
(* text `Differential Revision:`, "Or" the text `Original Revision:`, "U"  *)
(* the text `http://phabricator.test`, "R1" and "R2" the texts `/D1` and   *)
(* `/D2`.                                                                  *)

\* \s of the regular expressions: it matches line breaks as well as blanks.
IsWs(t) == t \in {"nl", "sp"}

\* /D(?P<rev>\d+)
Revs == {"R1", "R2"}

\* \s*, greedy, from position i: the position of the first token it leaves.
SkipWs(b, i) ==
    CHOOSE k \in i..(Len(b) + 1) :
        /\ \A j \in i..(k - 1) : IsWs(b[j])
        /\ k = Len(b) + 1 \/ ~IsWs(b[k])

\* ^ under re.MULTILINE: the start of the text or the position after a break.
LineStart(b, st) == st = 1 \/ b[st - 1] = "nl"

\* ^\s*<label>\s*(?P<phab_url>https?://.+)/D(?P<rev>\d+)\s*$ tried at st.
\* .+ stays on one line and is greedy, so the revision number is the last
\* word of that line; \s*$ is greedy and gives back what follows the last
\* line break it took, unless it reached the end of the text. The match
\* covers st..end-1, the url and the revision number are url..rev.
Pattern(b, st, label) ==
    LET a   == SkipWs(b, st)
        url == SkipWs(b, a + 1)
        le  == CHOOSE i \in url..Len(b) :
                   /\ \A j \in url..i : b[j] # "nl"
                   /\ i = Len(b) \/ b[i + 1] = "nl"
        rev == CHOOSE i \in url..le :
                   /\ ~IsWs(b[i])
                   /\ \A j \in (i + 1)..le : IsWs(b[j])
        k   == SkipWs(b, rev + 1)
        ok  == /\ st <= Len(b)
               /\ LineStart(b, st)
               /\ a <= Len(b)
               /\ b[a] = label
               /\ url <= Len(b)
               /\ b[url] = "U"
               /\ rev > url
               /\ b[rev] \in Revs
    IN  IF ~ok
        THEN [ok |-> FALSE, url |-> 0, rev |-> 0, end |-> 0]
        ELSE [ok |-> TRUE, url |-> url, rev |-> rev,
              end |-> IF k = Len(b) + 1
                      THEN k
                      ELSE CHOOSE j \in (rev + 1)..(k - 1) :
                               /\ b[j] = "nl"
                               /\ \A i \in (j + 1)..(k - 1) : b[i] # "nl"]

\* pattern.search(body) from position pos: the start of the leftmost match,
\* or 0 when there is none.
search(b, label, pos) ==
    IF \E st \in pos..Len(b) : Pattern(b, st, label).ok
    THEN CHOOSE st \in pos..Len(b) :
             /\ Pattern(b, st, label).ok
             /\ \A i \in pos..(st - 1) : ~Pattern(b, i, label).ok
    ELSE 0

ARC_DIFF_REV_RE(b, pos) == search(b, "Dr", pos)

ORIGINAL_DIFF_REV_RE(b, pos) == search(b, "Or", pos)

\* repl: f"\nOriginal Revision: {phab_url}/D{rev}"
repl(b, m) == <<"nl", "Or", "sp">> \o SubSeq(b, m.url, m.rev)

\* ARC_DIFF_REV_RE.sub(repl, body): every match, left to right, from pos.
RECURSIVE sub(_, _)
sub(b, pos) ==
    LET st == ARC_DIFF_REV_RE(b, pos)
        m  == Pattern(b, st, "Dr")
    IN  IF st = 0
        THEN SubSeq(b, pos, Len(b))
        ELSE SubSeq(b, pos, st - 1) \o repl(b, m) \o sub(b, m.end)

move_drev_to_original(body) ==
    LET differential_revision == ARC_DIFF_REV_RE(body, 1) # 0
        original_revision     == ORIGINAL_DIFF_REV_RE(body, 1) # 0
    IN  IF differential_revision /\ original_revision
        THEN body
        ELSE sub(body, 1)

\* The lines a commit message is put together from.
MaxLines == 3

Lines ==
    {<<>>,
     <<"txt">>,
     <<"Dr", "sp", "U", "R1">>,
     <<"sp", "Dr", "U", "R2", "sp">>,
     <<"Or", "sp", "U", "R1">>,
     <<"txt", "sp", "Dr", "sp", "U", "R1">>,
     <<"Dr", "sp", "txt">>}

\* "\n".join(lines)
RECURSIVE Join(_)
Join(ls) ==
    IF ls = <<>> THEN <<>>
    ELSE IF Len(ls) = 1 THEN ls[1]
    ELSE ls[1] \o <<"nl">> \o Join(Tail(ls))

Bodies == {Join(ls) : ls \in UNION {[1..n -> Lines] : n \in 1..MaxLines}}

NoMessage == [body |-> <<>>, result |-> <<>>, done |-> FALSE]

\* One call of move_drev_to_original on the message at hand.
MoveDrev ==
    /\ ~message.done
    /\ message' = [message EXCEPT !.result = move_drev_to_original(message.body),
                                  !.done = TRUE]
    /\ UNCHANGED <<deploys, jobs, revisions, config, environment, now, response, worker,
                   cli, phabricator, uplift>>

----------------------------------------------------------------------------
(* POST /uplift (landoapi/api/uplift.py, landoapi/uplift.py).              *)

MaxRevisions == 3

\* The callers' view of a revision: phabdouble.revision(title, summary).
SourceSummary == <<"txt", "nl", "nl", "Dr", "sp", "U", "R1">>

UpliftedSummary ==
    <<"txt", "nl", "nl", "Or", "sp", "U", "R1", "nl", "nl", "Dr", "sp", "U", "R2">>

PhabRevision(title, summary, diff, repository) ==
    [title |-> title, summary |-> summary, diff |-> diff, repository |-> repository]

PhabDiff(raw, repository, method) ==
    [raw |-> raw, repository |-> repository, creationMethod |-> method]

\* Phabricator before any uplift: one revision on mozilla-central, whose
\* diff may have lost its raw content.
Phabricators ==
    {[revisions |-> <<PhabRevision("Add feature XXX", s, 1, "mozilla-central")>>,
      diffs |-> <<PhabDiff(raw, "mozilla-central", "arc")>>,
      repositories |-> {"mozilla-central", "mozilla-uplift", "autoland"}] :
        s \in {SourceSummary, UpliftedSummary}, raw \in {"patch", ""}}

NoPhabricator == [revisions |-> <<>>, diffs |-> <<>>, repositories |-> {}]

\* The Conduit call of a request that fails, if any.
Faults ==
    {"none", "project.search", "differential.creatediff",
     "differential.setdiffproperty", "differential.revision.edit"}

UpliftData(repository, revision_id) ==
    [repository |-> repository, revision_id |-> revision_id]

UpliftRepositories == {"mozilla-uplift", "mozilla-central", "mozilla-unknown"}

UpliftDatas ==
    {UpliftData(r, i) : r \in UpliftRepositories, i \in 1..(MaxRevisions + 1)}

\* What a request leaves behind: the status and title of the response, the
\* state of Phabricator and the ids of the revision and diff it created.
UpliftResult(status, title, phab) ==
    [status |-> status, title |-> title, phabricator |-> phab,
     revision_id |-> IF Len(phab.revisions) > 0 /\ status = 201
                     THEN Len(phab.revisions) ELSE 0]

\* get_uplift_conduit_state, which create calls as check_approval_state:
\* phab.single raises unless the search finds exactly one object.
check_approval_state(phab, revision_id, target_repository_name) ==
    /\ target_repository_name \in phab.repositories
    /\ revision_id \in 1..Len(phab.revisions)

\* create_uplift_revision: an exception leaves what Conduit already did.
create_uplift_revision(phab, revision_id, target_repository, env, fault) ==
    LET source_revision == phab.revisions[revision_id]
        local_repo == RepoGet(get_repos_for_env(env), target_repository)
        diff == phab.diffs[source_revision.diff]
        raw_diff == diff.raw
        new_diff == PhabDiff(raw_diff, target_repository, "lando-uplift")
        with_diff == [phab EXCEPT !.diffs = Append(@, new_diff)]
        new_diff_id == Len(with_diff.diffs)
        summary == move_drev_to_original(source_revision.summary)
        new_rev == PhabRevision(source_revision.title, summary, new_diff_id,
                                target_repository)
        with_rev == [with_diff EXCEPT !.revisions = Append(@, new_rev)]
    IN  IF local_repo = None
        THEN UpliftResult(500, "Unknown repository", phab)
        ELSE IF ~local_repo[1].approval_required
        THEN UpliftResult(500, "No approval required", phab)
        ELSE IF fault = "project.search"
        THEN UpliftResult(500, "Internal Server Error", phab)
        ELSE IF raw_diff = ""
        THEN UpliftResult(500, "Missing raw source diff, cannot uplift revision.", phab)
        ELSE IF fault = "differential.creatediff"
        THEN UpliftResult(500, "Internal Server Error", phab)
        ELSE IF fault \in {"differential.setdiffproperty", "differential.revision.edit"}
        THEN UpliftResult(500, "Internal Server Error", with_diff)
        ELSE UpliftResult(201, "", with_rev)

\* create without its repository validation.
create_unvalidated(data, env, phab, fault) ==
    IF ~check_approval_state(phab, data.revision_id, data.repository)
    THEN UpliftResult(500, "Internal Server Error", phab)
    ELSE create_uplift_revision(phab, data.revision_id, data.repository, env, fault)

\* create: the body of the endpoint.
create(data, env, phab, fault) ==
    LET repo_name == data.repository
        repository == RepoGet(get_repos_for_env(env), repo_name)
    IN  IF repository = None \/ ~repository[1].approval_required
        THEN UpliftResult(
                 400,
                 "Repository " \o repo_name \o " is not a repository known to Lando.",
                 phab)
        ELSE IF ~repository[1].approval_required
        THEN UpliftResult(
                 400,
                 "Repository " \o repo_name \o " is not an uplift repository.",
                 phab)
        ELSE IF ~check_approval_state(phab, data.revision_id, repo_name)
        THEN UpliftResult(500, "Internal Server Error", phab)
        ELSE create_uplift_revision(phab, data.revision_id, repo_name, env, fault)

\* @auth.require_auth0(scopes=("lando", "profile", "email"), userinfo=True)
create_require_auth0(user, data, env, phab, fault) ==
    IF ~user.token
    THEN UpliftResult(401, "Authorization Header Required", phab)
    ELSE create(data, env, phab, fault)

\* @require_phabricator_api_key(optional=False), the outermost decorator.
require_phabricator_api_key(api_key, user, data, env, phab, fault) ==
    IF ~api_key
    THEN UpliftResult(401, "X-Phabricator-API-Key Required", phab)
    ELSE create_require_auth0(user, data, env, phab, fault)

NoUplift ==
    [status |-> 0, title |-> "", revision_id |-> 0, api_key |-> FALSE,
     caller |-> User("", {}, FALSE), data |-> UpliftData("", 0), fault |-> "none"]

\* One POST /uplift exchange, from the hook to the response.
UpliftRequest(api_key, user, data, fault) ==
    /\ Len(phabricator.revisions) < MaxRevisions
    /\ Len(phabricator.diffs) < MaxRevisions
    /\ LET r == IF ConfigurationVariable_get(config, API_IN_MAINTENANCE)
                THEN UpliftResult(503, "Lando is in maintenance.", phabricator)
                ELSE require_phabricator_api_key(api_key, user, data, environment,
                                                 phabricator, fault)
       IN  /\ phabricator' = r.phabricator
           /\ uplift' = [status |-> r.status, title |-> r.title,
                         revision_id |-> r.revision_id, api_key |-> api_key,
                         caller |-> user, data |-> data, fault |-> fault]
    /\ UNCHANGED <<deploys, jobs, revisions, config, environment, now, response, worker,
                   cli, message>>

----------------------------------------------------------------------------
(* Deploy sequences (landoapi/cli.py). Each ConfigurationVariable.set is   *)
(* its own commit, so a sequence is two steps.                             *)

\* run_pre_deploy_sequence: the n-th ConfigurationVariable.set of the command.
run_pre_deploy_sequence(cfg, n) ==
    IF n = 1
    THEN ConfigurationVariable_set(cfg, API_IN_MAINTENANCE, "1")
    ELSE ConfigurationVariable_set(cfg, LANDING_WORKER_PAUSED, "1")

\* A post-deploy sequence that takes the API out of maintenance and leaves
\* the workers paused.
run_post_deploy_sequence_api_only(cfg, n) ==
    IF n = 1
    THEN ConfigurationVariable_set(cfg, API_IN_MAINTENANCE, "0")
    ELSE cfg

\* run_post_deploy_sequence: the n-th ConfigurationVariable.set of the command.
run_post_deploy_sequence(cfg, n) ==
    IF n = 1
    THEN ConfigurationVariable_set(cfg, API_IN_MAINTENANCE, "0")
    ELSE ConfigurationVariable_set(cfg, LANDING_WORKER_PAUSED, "0")

Sequence(c, cfg, n) ==
    IF c = "pre" THEN run_pre_deploy_sequence(cfg, n)
    ELSE run_post_deploy_sequence(cfg, n)

NoDeploys == [started |-> "none", finished |-> "none", overlapped |-> FALSE]

\* The command starts and sets the maintenance flag.
DeployFirst(c) ==
    /\ cli[c] = "idle"
    /\ config' = Sequence(c, config, 1)
    /\ cli' = [cli EXCEPT ![c] = "running"]
    /\ deploys' = [deploys EXCEPT !.started = c,
                                  !.overlapped = \E d \in DOMAIN cli : cli[d] = "running"]
    /\ UNCHANGED <<phabricator, uplift, message, jobs, revisions, environment, now, response, worker>>

\* The command sets the worker pause flag and exits.
DeploySecond(c) ==
    /\ cli[c] = "running"
    /\ config' = Sequence(c, config, 2)
    /\ cli' = [cli EXCEPT ![c] = "idle"]
    /\ deploys' = [deploys EXCEPT !.finished = c]
    /\ UNCHANGED <<phabricator, uplift, message, jobs, revisions, environment, now, response, worker>>

----------------------------------------------------------------------------
(* Landing job state machine and landing worker                            *)
(* (landoapi.models.landing_job, landoapi.workers.landing_worker).         *)

\* The retry ceiling: a job is deferred while its attempts stay below it.
MaxAttempts == 2

\* The grace period the worker passes to the queue query.
GraceSeconds == 1

\* The repositories the worker lands to.
WorkerRepos == {"try", "autoland"}

\* A status write: the row's updated_at is refreshed with it.
SetStatus(js, id, status, t) ==
    [js EXCEPT ![id].status = status, ![id].updated_at = t]

\* What a worker remembers of a queue row: the key of its conditional claim.
Snapshot(job) == [id |-> job.id, status |-> job.status, updated_at |-> job.updated_at]

\* The condition of the claim: the row is as it was read.
Unchanged(js, snap) ==
    /\ js[snap.id].status = snap.status
    /\ js[snap.id].updated_at = snap.updated_at

\* A claim that writes IN_PROGRESS without comparing the row to what was read.
ClaimUpdate_unconditional(js, snap, t) == SetStatus(js, snap.id, IN_PROGRESS, t)

\* The conditional update of a claim: IN_PROGRESS if the row is as it was read.
ClaimUpdate(js, snap, t) ==
    IF Unchanged(js, snap) THEN SetStatus(js, snap.id, IN_PROGRESS, t) ELSE js

\* The outcome of a landing attempt, written to the row.
RecordOutcome(js, id, outcome, t) ==
    IF outcome = "landed"
    THEN SetStatus(js, id, LANDED, t)
    ELSE IF outcome = "transient" /\ js[id].attempts + 1 < MaxAttempts
    THEN [SetStatus(js, id, DEFERRED, t) EXCEPT ![id].attempts = @ + 1]
    ELSE IF outcome = "transient"
    THEN [SetStatus(js, id, FAILED, t) EXCEPT
              ![id].attempts = @ + 1,
              ![id].error_message = "attempts exhausted"]
    ELSE [SetStatus(js, id, FAILED, t) EXCEPT
              ![id].error_message = "patch does not apply"]

\* How a landing attempt can end: with no failure, or with a transient or a
\* permanent one.
Failures == {"none", "transient", "permanent"}

\* Where a worker goes when it is done with a candidate.
NextCandidate(w, cands) ==
    [w EXCEPT !.pc = IF cands = <<>> THEN "check_pause" ELSE "claim",
              !.cands = cands, !.job = 0]

\* A worker that reads the pause flag and goes on to the queue regardless.
CheckPause_ignored(w) ==
    /\ worker[w].pc = "check_pause"
    /\ LET paused == ConfigurationVariable_get(config, LANDING_WORKER_PAUSED)
       IN  worker' = [worker EXCEPT
               ![w].paused = paused, ![w].lost = 0, ![w].pc = "query"]
    /\ UNCHANGED <<deploys, phabricator, uplift, message, jobs, revisions, config, environment, now, response, cli>>

\* (a) the worker reads the pause flag; paused, it sleeps and reads again.
CheckPause(w) ==
    /\ worker[w].pc = "check_pause"
    /\ LET paused == ConfigurationVariable_get(config, LANDING_WORKER_PAUSED)
       IN  worker' = [worker EXCEPT
               ![w].paused = paused,
               ![w].lost = 0,
               ![w].pc = IF paused THEN "check_pause" ELSE "query"]
    /\ UNCHANGED <<deploys, phabricator, uplift, message, jobs, revisions, config, environment, now, response, cli>>

\* (b) the worker asks the queue for the head job of each repository.
Query(w) ==
    /\ worker[w].pc = "query"
    /\ LET ids == next_eligible(jobs, WorkerRepos, GraceSeconds, now)
           cands == [i \in 1..Len(ids) |-> Snapshot(jobs[ids[i]])]
       IN  worker' = [worker EXCEPT ![w] = NextCandidate(@, cands)]
    /\ UNCHANGED <<deploys, phabricator, uplift, message, jobs, revisions, config, environment, now, response, cli>>

\* (c) the worker attempts the claim of its next candidate.
Claim(w) ==
    /\ worker[w].pc = "claim"
    /\ LET snap == Head(worker[w].cands)
           rest == Tail(worker[w].cands)
       IN  /\ jobs' = ClaimUpdate(jobs, snap, now)
           /\ worker' = [worker EXCEPT ![w] =
                  IF jobs' # jobs
                  THEN [@ EXCEPT !.pc = "apply", !.cands = rest, !.job = snap.id]
                  ELSE [NextCandidate(@, rest) EXCEPT !.lost = snap.id]]
    /\ UNCHANGED <<deploys, phabricator, uplift, message, revisions, config, environment, now, response, cli>>

\* (d), (e) the worker applies the revisions of its job in order, stops at
\* the first that fails, pushes them all if none fails, and records the
\* outcome. The working copy is the worker's own, so the attempt is one step.
Apply(w) ==
    /\ worker[w].pc = "apply"
    /\ LET revs == RevisionsOf(revisions, worker[w].job)
       IN  \E applied \in 0..Len(revs), failure \in Failures :
               /\ failure = "none" => applied = Len(revs)
               /\ jobs' = RecordOutcome(
                              jobs, worker[w].job,
                              IF failure = "none" THEN "landed" ELSE failure,
                              now)
    /\ worker' = [worker EXCEPT ![w] = NextCandidate(@, @.cands)]
    /\ UNCHANGED <<deploys, phabricator, uplift, message, revisions, config, environment, now, response, cli>>

\* A cancellation that does not look at the status of the job.
Cancel_any(id) ==
    /\ jobs' = SetStatus(jobs, id, CANCELLED, now)
    /\ jobs' # jobs
    /\ UNCHANGED <<deploys, phabricator, uplift, message, revisions, config, environment, now, response, worker, cli>>

\* An external cancellation request, honoured while the job is SUBMITTED.
Cancel(id) ==
    /\ jobs[id].status = SUBMITTED
    /\ jobs' = SetStatus(jobs, id, CANCELLED, now)
    /\ UNCHANGED <<deploys, phabricator, uplift, message, revisions, config, environment, now, response, worker, cli>>

\* A landing request of another endpoint: Job Submission for "autoland".
SubmitLanding(user, patches) ==
    /\ Len(jobs) < MaxJobs
    /\ LET added == add_job_with_revisions(
                        jobs, revisions, try_revisions(patches),
                        AutolandRepo.short_name, AutolandRepo.url,
                        user.email, SUBMITTED, None, now)
       IN  /\ jobs' = added.jobs
           /\ revisions' = added.revisions
    /\ UNCHANGED <<deploys, phabricator, uplift, message, config, environment, now, response, worker, cli>>

----------------------------------------------------------------------------
Workers == {"w1", "w2"}

Commands == {"pre", "post"}

IdleWorker == [pc |-> "check_pause", paused |-> FALSE, cands |-> <<>>, job |-> 0, lost |-> 0]

Init ==
    /\ jobs = <<>>
    /\ revisions = <<>>
    /\ config = [k \in ConfigurationKey |-> "0"]
    /\ environment \in Environments
    /\ now = 0
    /\ response = NoResponse
    /\ worker = [w \in Workers |-> IdleWorker]
    /\ cli = [c \in Commands |-> "idle"]
    /\ phabricator = NoPhabricator
    /\ uplift = NoUplift
    /\ message = NoMessage
    /\ deploys = NoDeploys

Alice == User("alice@example.com", Authorised, TRUE)

\* The API alone: every caller and every request body at one instant, no
\* worker running.
SubmitNext ==
    \/ \E user \in Callers, data \in Datas : TryRequest(user, data)
    \/ SubmitLanding(Alice, <<"p1">>)

SubmitSpec == Init /\ [][SubmitNext]_vars

OneData == Data(Some(Hash40), <<"p1">>)

\* The queue of the try repository: accepted submissions, cancellations and
\* the workers, with the flags left clear.
QueueNext ==
    \/ TryRequest(Alice, OneData)
    \/ \E id \in 1..Len(jobs) : Cancel(id)
    \/ \E w \in Workers : CheckPause(w)
    \/ \E w \in Workers : Query(w)
    \/ \E w \in Workers : Claim(w)
    \/ \E w \in Workers : Apply(w)
    \/ Tick

QueueInit == Init /\ environment = "devel"

QueueSpec == QueueInit /\ [][QueueNext]_vars

\* A step of one worker's loop.
WorkerStep(w) == CheckPause(w) \/ Query(w) \/ Claim(w) \/ Apply(w)

\* The queue under the deploy sequences: submissions, one running worker and
\* an operator who runs one deploy command at a time.
PauseWorkers == {"w1"}

NoDeployRunning == \A c \in Commands : cli[c] = "idle"

PauseNext ==
    \/ TryRequest(Alice, OneData)
    \/ \E w \in PauseWorkers : CheckPause(w)
    \/ \E w \in PauseWorkers : Query(w)
    \/ \E w \in PauseWorkers : Claim(w)
    \/ \E w \in PauseWorkers : Apply(w)
    \/ \E c \in Commands : NoDeployRunning /\ DeployFirst(c)
    \/ \E c \in Commands : DeploySecond(c)
    \/ Tick

\* A worker process that runs keeps running: its loop has no blocking step
\* other than the sleeps it wakes from.
PauseSpec ==
    /\ QueueInit
    /\ [][PauseNext]_vars
    /\ \A w \in PauseWorkers : WF_vars(WorkerStep(w))

\* The API under the deploy sequences.
MaintenanceNext ==
    \/ \E user \in GoodCallers, data \in GoodDatas : TryRequest(user, data)
    \/ \E c \in Commands : DeployFirst(c)
    \/ \E c \in Commands : DeploySecond(c)

MaintenanceSpec == QueueInit /\ [][MaintenanceNext]_vars

\* move_drev_to_original alone, on every commit message of the bound.
MessageInit ==
    /\ jobs = <<>>
    /\ revisions = <<>>
    /\ config = [k \in ConfigurationKey |-> "0"]
    /\ environment = "devel"
    /\ now = 0
    /\ response = NoResponse
    /\ worker = [w \in Workers |-> IdleWorker]
    /\ cli = [c \in Commands |-> "idle"]
    /\ phabricator = NoPhabricator
    /\ uplift = NoUplift
    /\ message \in {[NoMessage EXCEPT !.body = b] : b \in Bodies}
    /\ deploys = NoDeploys

MessageNext == MoveDrev

MessageSpec == MessageInit /\ [][MessageNext]_vars

\* The uplift endpoint alone: every caller, request body and Conduit fault,
\* with the flags left clear.
UpliftCallers == {Alice, User("", {}, FALSE)}

UpliftInit ==
    /\ jobs = <<>>
    /\ revisions = <<>>
    /\ config = [k \in ConfigurationKey |-> "0"]
    /\ environment \in Environments
    /\ now = 0
    /\ response = NoResponse
    /\ worker = [w \in Workers |-> IdleWorker]
    /\ cli = [c \in Commands |-> "idle"]
    /\ phabricator \in Phabricators
    /\ uplift = NoUplift
    /\ message = NoMessage
    /\ deploys = NoDeploys

UpliftNext ==
    \E api_key \in BOOLEAN, user \in UpliftCallers, data \in UpliftDatas,
       fault \in Faults :
        UpliftRequest(api_key, user, data, fault)

UpliftSpec == UpliftInit /\ [][UpliftNext]_vars

\* The service: accepted callers and bodies, the workers and the operators.

Next ==
    \/ TryRequest(Alice, OneData)
    \/ SubmitLanding(Alice, <<"p1">>)
    \/ UpliftRequest(TRUE, Alice, UpliftData("mozilla-uplift", 1), "none")
    \/ MoveDrev
    \/ \E id \in 1..Len(jobs) : Cancel(id)
    \/ \E w \in Workers : CheckPause(w)
    \/ \E w \in Workers : Query(w)
    \/ \E w \in Workers : Claim(w)
    \/ \E w \in Workers : Apply(w)
    \/ \E c \in Commands : NoDeployRunning /\ DeployFirst(c)
    \/ \E c \in Commands : DeploySecond(c)
    \/ Tick

Spec == Init /\ [][Next]_vars

----------------------------------------------------------------------------
(* Properties of POST /try.                                                *)

Range(q) == {q[i] : i \in 1..Len(q)}

\* The step is a POST /try exchange. (An exchange that repeats the previous
\* one with the same result and adds no job changes nothing at all.)
Exchange == response' # response

\* The exchange reaches the body of post: the API is not in maintenance, the
\* caller presents a token and holds active, unexpired scm_level_1 access.
ReachesPost ==
    /\ Exchange
    /\ config[API_IN_MAINTENANCE] = "0"
    /\ response'.caller.token
    /\ response'.caller.groups = {"all_scm_level_1", "active_scm_level_1"}

TryResolvable == \E r \in get_repos_for_env(environment) : r.short_name = "try"

FullHash(base) == base # None /\ Len(base[1]) = 40

NothingPersisted == jobs' = jobs /\ revisions' = revisions

\* C1: an accepted try submission (authorised caller, 40-character base
\* commit, N >= 1 patches, try repository configured) is answered 201 and
\* adds exactly one job, SUBMITTED, for repository try, with the caller's
\* email and the base commit, and exactly N revisions, in the order of the
\* patches, with sequence_index 0..N-1; the queue query for {try} with
\* grace_seconds = 0 then returns the job, and only it on an empty store.
C1_AcceptedSubmissionQueuesOneJob ==
    [][(/\ ReachesPost
        /\ FullHash(response'.data.base_commit)
        /\ response'.data.patches # <<>>
        /\ TryResolvable)
       => LET d == response'.data
              id == Len(jobs) + 1
              first == Len(revisions)
              N == Len(d.patches)
              queue == job_queue_query(jobs', {"try"}, 0, now')
          IN  /\ response'.status = 201
              /\ Len(jobs') = id
              /\ SubSeq(jobs', 1, Len(jobs)) = jobs
              /\ jobs'[id].id = id
              /\ jobs'[id].status = SUBMITTED
              /\ jobs'[id].repository_name = "try"
              /\ jobs'[id].requester_email = response'.caller.email
              /\ jobs'[id].target_cset = d.base_commit
              /\ Len(revisions') = first + N
              /\ SubSeq(revisions', 1, first) = revisions
              /\ \A i \in 1..N :
                     /\ revisions'[first + i].patch_bytes = d.patches[i]
                     /\ revisions'[first + i].landing_job_id = id
                     /\ revisions'[first + i].sequence_index = i - 1
              /\ id \in Range(queue)
              /\ (jobs = <<>> => queue = <<id>>)]_vars

\* A second job was accepted, from another caller, with two patches.
C1_Witness ==
    /\ response.status = 201
    /\ Len(response.data.patches) = 2
    /\ Len(jobs) = 2
    /\ jobs[2].requester_email = "bob@example.com"
    /\ jobs[2].repository_name = "try"
    /\ Len(RevisionsOf(revisions, 2)) = 2

\* C2: a try submission with an empty patch list, whatever its base commit
\* and the configured repositories, is answered 400 and adds no job and no
\* revision.
C2_EmptyPatchListRejected ==
    [][(ReachesPost /\ response'.data.patches = <<>>)
       => /\ response'.status = 400
          /\ NothingPersisted]_vars

\* An empty patch list with a well-formed base commit was rejected.
C2_Witness ==
    /\ response.status = 400
    /\ response.title = "Patches must contain at least 1 patch."
    /\ response.data.patches = <<>>
    /\ response.data.base_commit = Some(Hash40)

\* C3: a try submission whose base commit is not 40 characters long,
\* whatever its patch list, is answered 400 and adds no job and no revision.
C3_BadBaseCommitRejected ==
    [][(/\ ReachesPost
        /\ response'.data.base_commit # None
        /\ Len(response'.data.base_commit[1]) # 40)
       => /\ response'.status = 400
          /\ NothingPersisted]_vars

\* A base commit of 41 characters with patches was rejected.
C3_Witness ==
    /\ response.status = 400
    /\ response.data.base_commit = Some(Hash41)
    /\ response.data.patches # <<>>

\* C4: a well-formed submission is answered 500 when the try repository is
\* not configured, and every exchange that is not answered 201 (validation,
\* configuration or authorisation failure) leaves both tables as they were:
\* rows of the try repository appear only with a 201.
C4_FailuresPersistNothing ==
    [][/\ (Exchange /\ response'.status # 201) => NothingPersisted
       /\ (Len(jobs') # Len(jobs) \/ revisions' # revisions)
          => \/ Exchange /\ response'.status = 201
             \/ /\ ~Exchange
                /\ Len(jobs') > Len(jobs)
                /\ jobs'[Len(jobs')].repository_name # "try"
       /\ (/\ ReachesPost
           /\ FullHash(response'.data.base_commit)
           /\ response'.data.patches # <<>>
           /\ ~TryResolvable)
          => response'.status = 500]_vars

\* A well-formed submission failed on the repository lookup, with a job of
\* another repository already in the table.
C4_Witness ==
    /\ response.status = 500
    /\ ~TryResolvable
    /\ Len(jobs) >= 1

----------------------------------------------------------------------------
(* Properties of the queue and the landing worker.                         *)

Ready == {SUBMITTED, DEFERRED}

Terminal == {LANDED, FAILED, CANCELLED}

Edges ==
    {<<SUBMITTED, IN_PROGRESS>>, <<SUBMITTED, CANCELLED>>,
     <<IN_PROGRESS, LANDED>>, <<IN_PROGRESS, DEFERRED>>,
     <<IN_PROGRESS, FAILED>>, <<DEFERRED, IN_PROGRESS>>}

\* Worker w is landing job id.
Owns(w, id) == worker[w].pc = "apply" /\ worker[w].job = id

\* Worker w is about to attempt the claim of the job it read as c.
Attempts(w, c) == worker[w].pc = "claim" /\ Head(worker[w].cands) = c

\* The row is as the worker read it.
AsRead(c) ==
    /\ jobs[c.id].status = c.status
    /\ jobs[c.id].updated_at = c.updated_at

\* The step is the claim attempt of worker w.
ClaimStepOf(w) == worker[w].pc = "claim" /\ worker'[w] # worker[w]

\* The step moves job id to IN_PROGRESS.
Claimed(id) == jobs[id].status # IN_PROGRESS /\ jobs'[id].status = IN_PROGRESS

\* C6: when two workers attempt the claim of the same ready job they both
\* read, the first attempt moves the job to IN_PROGRESS and makes that
\* worker its owner; an attempt on a row that is no longer as it was read
\* changes no row, and the worker moves on without a job; a job is never
\* owned by two workers.
C6_OneClaimWins ==
    [][/\ \A w1, w2 \in Workers : \A c \in {Snapshot(jobs[i]) : i \in 1..Len(jobs)} :
              (/\ w1 # w2
               /\ Attempts(w1, c)
               /\ Attempts(w2, c)
               /\ ClaimStepOf(w1))
              => /\ Claimed(c.id)
                 /\ worker'[w1].pc = "apply"
                 /\ worker'[w1].job = c.id
                 /\ worker'[w2] = worker[w2]
                 /\ jobs'[c.id].status # c.status
       /\ \A w \in Workers :
              (ClaimStepOf(w) /\ ~AsRead(Head(worker[w].cands)))
              => /\ jobs' = jobs
                 /\ worker'[w].pc # "apply"
                 /\ worker'[w].job = 0
                 /\ worker'[w].lost = Head(worker[w].cands).id
       /\ \A w1, w2 \in Workers : \A i \in 1..Len(jobs') :
              (worker'[w1].pc = "apply" /\ worker'[w1].job = i
               /\ worker'[w2].pc = "apply" /\ worker'[w2].job = i)
              => w1 = w2]_vars

\* One worker owns a job and the other has lost the claim of that job.
C6_Witness ==
    \E w1, w2 \in Workers : \E i \in 1..Len(jobs) :
        /\ w1 # w2
        /\ Owns(w1, i)
        /\ jobs[i].status = IN_PROGRESS
        /\ worker[w2].lost = i

C8_StatusFollowsEdges ==
    [][/\ Len(jobs') >= Len(jobs)
       /\ \A i \in 1..Len(jobs) :
              /\ jobs'[i].id = jobs[i].id
              /\ \/ jobs'[i].status = jobs[i].status
                 \/ <<jobs[i].status, jobs'[i].status>> \in Edges
              /\ jobs[i].status \in Terminal => jobs'[i].status = jobs[i].status
       /\ \A i \in (Len(jobs) + 1)..Len(jobs') :
              jobs'[i].status = SUBMITTED]_vars

\* A job has landed on its second attempt and another was cancelled.
C8_Witness ==
    \E i, k \in 1..Len(jobs) :
        /\ jobs[i].status = LANDED
        /\ jobs[i].attempts = 1
        /\ jobs[k].status = CANCELLED

----------------------------------------------------------------------------
(* Properties of the operational flags.                                    *)

PauseFlag == config[LANDING_WORKER_PAUSED] = "1"

MaintenanceFlag == config[API_IN_MAINTENANCE] = "1"

\* The status of job i, if there is such a job.
StatusOf(i) == IF i <= Len(jobs) THEN jobs[i].status ELSE "NONE"

\* Job i is ready and outside its grace window.
Claimable(i) ==
    /\ StatusOf(i) \in Ready
    /\ jobs[i].updated_at + GraceSeconds <= now

\* C9, as stated: while the pause flag is set no job moves to IN_PROGRESS.
C9_NoClaimWhilePaused ==
    [][PauseFlag => \A i \in 1..Len(jobs) : ~Claimed(i)]_vars

\* C9, amended: a worker that reads the pause flag set sleeps and reads it
\* again without asking the queue, so every claim is made by a worker whose
\* last read of the flag found it clear (a worker past that read when the
\* flag is set still claims the jobs it was handed); jobs IN_PROGRESS run to
\* LANDED, DEFERRED or FAILED whatever the flag; no row is removed and each
\* IN_PROGRESS job has its one worker; and a job that is ready and outside
\* its grace window while the flag is clear is claimed, unless the flag is
\* set again first.
C9_PauseHaltsNewClaims ==
    /\ [][/\ \A w \in PauseWorkers :
                 /\ (/\ worker[w].pc = "check_pause"
                     /\ worker'[w] # worker[w]
                     /\ PauseFlag)
                    => /\ worker'[w].pc = "check_pause"
                       /\ worker'[w].paused
                       /\ jobs' = jobs
                 /\ worker'[w].pc # "check_pause" => ~worker'[w].paused
          /\ \A i \in 1..Len(jobs) :
                 Claimed(i) => \E w \in PauseWorkers :
                                   /\ ClaimStepOf(w)
                                   /\ ~worker[w].paused
          /\ Len(jobs') >= Len(jobs)
          /\ \A i \in 1..Len(jobs') :
                 jobs'[i].status = IN_PROGRESS
                 <=> \E w \in PauseWorkers :
                         worker'[w].pc = "apply" /\ worker'[w].job = i]_vars
    /\ \A i \in 1..MaxJobs :
           (StatusOf(i) = IN_PROGRESS)
           ~> (StatusOf(i) \in {LANDED, DEFERRED, FAILED})
    /\ \A i \in 1..MaxJobs :
           (Claimable(i) /\ ~PauseFlag) ~> (PauseFlag \/ ~Claimable(i))

\* The worker sleeps on a set flag while a job waits, ready to be claimed.
C9_Witness ==
    \E w \in PauseWorkers : \E i \in 1..Len(jobs) :
        /\ PauseFlag
        /\ worker[w].pc = "check_pause"
        /\ worker[w].paused
        /\ Claimable(i)

----------------------------------------------------------------------------
(* Properties of move_drev_to_original.                                    *)

\* body.split("\n")
RECURSIVE SplitLines(_)
SplitLines(b) ==
    IF \E i \in 1..Len(b) : b[i] = "nl"
    THEN LET i == CHOOSE k \in 1..Len(b) :
                      b[k] = "nl" /\ \A j \in 1..(k - 1) : b[j] # "nl"
         IN  <<SubSeq(b, 1, i - 1)>> \o SplitLines(SubSeq(b, i + 1, Len(b)))
    ELSE <<b>>

\* The line is a `Differential Revision` (`Original Revision`) line.
IsRevisionLine(line, label) == Pattern(line, 1, label).ok

\* The URL and revision number of such a line.
UrlAndRev(line, label) ==
    LET m == Pattern(line, 1, label) IN SubSeq(line, m.url, m.rev)

HasDifferential(b) == ARC_DIFF_REV_RE(b, 1) # 0

HasOriginal(b) == ORIGINAL_DIFF_REV_RE(b, 1) # 0

\* C12: for a message with a Differential Revision line and no Original
\* Revision line, move_drev_to_original rewrites that line to Original
\* Revision with the same URL and revision number and leaves every other
\* line as it was; a message with both lines is returned as it is.
C12_MoveRewritesOnlyThatLine ==
    message.done =>
        LET body == SplitLines(message.body)
            res  == SplitLines(message.result)
        IN  /\ (HasDifferential(message.body) /\ ~HasOriginal(message.body)) =>
                   /\ Len(res) = Len(body)
                   /\ \A i \in 1..Len(body) :
                          IF i > Len(res) THEN FALSE
                          ELSE IF IsRevisionLine(body[i], "Dr")
                          THEN /\ IsRevisionLine(res[i], "Or")
                               /\ UrlAndRev(res[i], "Or") = UrlAndRev(body[i], "Dr")
                          ELSE res[i] = body[i]
            /\ (HasDifferential(message.body) /\ HasOriginal(message.body)) =>
                   message.result = message.body

\* C13: if the message already has an Original Revision line, the message
\* move_drev_to_original returns has no Differential Revision line.
C13_DifferentialLineScrubbed ==
    (message.done /\ HasOriginal(message.body)) => ~HasDifferential(message.result)

----------------------------------------------------------------------------
(* Properties of POST /uplift.                                             *)

\* A step that is a POST /uplift exchange.
UpliftExchange == uplift' # uplift

\* The repository the request names, as Lando configures it, or None.
Configured(name) == RepoGet(get_repos_for_env(environment), name)

\* The request came with an API key and with an Auth0 token.
UpliftAuthenticated == uplift'.api_key /\ uplift'.caller.token

\* C11: an authenticated uplift request for a repository Lando knows and
\* that does not require approval gets 400 with the title "Repository <name>
\* is not an uplift repository." and creates no revision.
C11_NotAnUpliftRepository ==
    [][(/\ UpliftExchange
        /\ UpliftAuthenticated
        /\ Configured(uplift'.data.repository) # None
        /\ ~Configured(uplift'.data.repository)[1].approval_required)
       => /\ uplift'.status = 400
          /\ uplift'.title =
                 "Repository " \o uplift'.data.repository
                     \o " is not an uplift repository."
          /\ phabricator'.revisions = phabricator.revisions]_vars

\* The repository validation of create lets the request through.
UpliftRepositoryValid ==
    /\ Configured(uplift'.data.repository) # None
    /\ Configured(uplift'.data.repository)[1].approval_required

\* The revision to uplift exists and its diff has its raw content.
UpliftSourceReadable ==
    /\ uplift'.data.revision_id \in 1..Len(phabricator.revisions)
    /\ uplift'.data.repository \in phabricator.repositories
    /\ phabricator.diffs[phabricator.revisions[uplift'.data.revision_id].diff].raw # ""

\* C15: the checks of uplift creation run in the order API key, Auth0,
\* repository validation, and the first that fails decides the response
\* (401 "X-Phabricator-API-Key Required", 401 "Authorization Header
\* Required", 400); a request a check rejects creates no diff and no
\* revision; a request answered 201 has created exactly one diff and one
\* revision, the copy of its source revision with the summary rewritten,
\* and a request that passes the checks is answered 201 when its source is
\* readable and Conduit does not fail.
C15_UpliftChecksInOrder ==
    [][UpliftExchange =>
        /\ ~uplift'.api_key =>
               /\ uplift'.status = 401
               /\ uplift'.title = "X-Phabricator-API-Key Required"
        /\ (uplift'.api_key /\ ~uplift'.caller.token) =>
               /\ uplift'.status = 401
               /\ uplift'.title = "Authorization Header Required"
        /\ (UpliftAuthenticated /\ ~UpliftRepositoryValid) =>
               uplift'.status = 400
        /\ uplift'.status \in {400, 401} =>
               (~UpliftAuthenticated \/ ~UpliftRepositoryValid)
        /\ uplift'.status \in {400, 401} => phabricator' = phabricator
        /\ uplift'.status = 201 =>
               /\ UpliftAuthenticated /\ UpliftRepositoryValid
               /\ Len(phabricator'.revisions) = Len(phabricator.revisions) + 1
               /\ Len(phabricator'.diffs) = Len(phabricator.diffs) + 1
               /\ SubSeq(phabricator'.revisions, 1, Len(phabricator.revisions))
                      = phabricator.revisions
               /\ SubSeq(phabricator'.diffs, 1, Len(phabricator.diffs))
                      = phabricator.diffs
               /\ uplift'.revision_id = Len(phabricator'.revisions)
               /\ LET src == phabricator.revisions[uplift'.data.revision_id]
                      new == phabricator'.revisions[uplift'.revision_id]
                  IN  /\ new.title = src.title
                      /\ new.summary = move_drev_to_original(src.summary)
                      /\ new.repository = uplift'.data.repository
                      /\ new.diff = Len(phabricator'.diffs)
        /\ (/\ UpliftAuthenticated
            /\ UpliftRepositoryValid
            /\ UpliftSourceReadable
            /\ uplift'.fault = "none") => uplift'.status = 201]_vars

\* An uplift was accepted after one request was turned away, and its
\* revision carries the Original Revision line of its source.
C15_Witness ==
    /\ uplift.status = 201
    /\ uplift.revision_id = 2
    /\ Len(phabricator.revisions) = 2
    /\ Len(phabricator.diffs) = 2
    /\ HasOriginal(phabricator.revisions[2].summary)
    /\ ~HasDifferential(phabricator.revisions[2].summary)

----------------------------------------------------------------------------
(* Properties of the authorisation guard of POST /try.                     *)

\* The caller holds active, unexpired scm_level_1 access.
HasScmLevel1(user) ==
    /\ "all_scm_level_1" \in user.groups
    /\ "active_scm_level_1" \in user.groups
    /\ "expired_scm_level_1" \notin user.groups

\* C14: the guard runs before the body of post. The body answers (201, 400
\* or 500), and a job is created, only for a caller in all_scm_level_1 and
\* active_scm_level_1 and not in expired_scm_level_1; every other caller
\* the guard sees is answered 401, "scm_level_1 access is required." when
\* not in all_scm_level_1 and "Your scm_level_1 commit access has expired."
\* otherwise, whatever the body of the request, and no job is created. A
\* request without a token is answered 401 before the guard.
C14_GuardBeforeSubmission ==
    [][Exchange =>
        LET user == response'.caller
        IN  /\ (response'.status # 401 \/ response'.job # 0 \/ jobs' # jobs) =>
                   (user.token /\ HasScmLevel1(user))
            /\ (user.token /\ HasScmLevel1(user)) =>
                   response'.status \in {201, 400, 500}
            /\ (user.token /\ "all_scm_level_1" \notin user.groups) =>
                   /\ response'.status = 401
                   /\ response'.title = "scm_level_1 access is required."
            /\ (/\ user.token
                /\ "all_scm_level_1" \in user.groups
                /\ ~HasScmLevel1(user)) =>
                   /\ response'.status = 401
                   /\ response'.title = "Your scm_level_1 commit access has expired."
            /\ response'.status = 401 => (response'.job = 0 /\ NothingPersisted)]_vars

\* A well-formed submission of a caller who is in all three groups was
\* turned away as expired, after another caller's had been queued.
C14_Witness ==
    /\ response.status = 401
    /\ response.title = "Your scm_level_1 commit access has expired."
    /\ response.caller.groups = Groups
    /\ response.data \in GoodDatas
    /\ TryResolvable
    /\ Len(jobs) >= 1

----------------------------------------------------------------------------
(* Properties of the deploy sequences.                                     *)

\* The value a command writes to both flags.
Sets(c) == c = "pre"

\* C16, as stated: once all runs have finished, whether or not their steps
\* interleaved, both flags hold the value of the last run to start, set
\* after the pre-deploy sequence and cleared after the post-deploy sequence.
C16_FlagsAgreeAfterRuns ==
    (NoDeployRunning /\ deploys.started # "none") =>
        /\ MaintenanceFlag = Sets(deploys.started)
        /\ PauseFlag = Sets(deploys.started)

\* C16, amended: the maintenance flag holds the value of the last run to
\* start and the worker-pause flag the value of the last run to finish; once
\* all runs have finished the two flags agree, on the value of the last run
\* to start, if that run started when no other run was running.
C16_FlagsFollowLastWriter ==
    /\ deploys.started # "none" => MaintenanceFlag = Sets(deploys.started)
    /\ deploys.finished # "none" => PauseFlag = Sets(deploys.finished)
    /\ deploys.started = "none" => (~MaintenanceFlag /\ ~PauseFlag)
    /\ (NoDeployRunning /\ deploys.started # "none" /\ ~deploys.overlapped) =>
           /\ deploys.finished = deploys.started
           /\ MaintenanceFlag = Sets(deploys.started)
           /\ PauseFlag = Sets(deploys.started)

\* Both sequences have run to their end, one after the other, and the pre-
\* deploy sequence was the last: both flags are set.
C16_Witness ==
    /\ NoDeployRunning
    /\ deploys.started = "pre"
    /\ deploys.finished = "pre"
    /\ ~deploys.overlapped
    /\ MaintenanceFlag
    /\ PauseFlag
    /\ response.status = 503

====
